---- MODULE Spec2Model ----
(***************************************************************************)
(* brandcn: name validation, variant resolution, variant filtering and the *)
(* batch processor that copies logos from the library to the target        *)
(* directory (packages/brandcn/src/utils/validate.ts).                     *)
(*                                                                         *)
(* Strings are TLA+ strings; a character is a string of length 1.          *)
(***************************************************************************)
EXTENDS Integers, Sequences, FiniteSets, TLC

VARIABLES
    \* ---- validateLogoNames (pure) ----
    rawNames,          \* the argument of validateLogoNames
    validation,        \* its return value, None before the call
    \* ---- findLogoVariants / filterByVariants (pure) ----
    brandName,         \* the brandName argument of findLogoVariants
    candidateLogos,    \* the list argument of both functions
    variantFlags,      \* the options argument of filterByVariants, None before it
    foundVariants,     \* return value of findLogoVariants, None before it
    filteredLogos,     \* return value of filterByVariants, None before it
    \* ---- processLogos and the two directories ----
    library,           \* set of file names in the library directory
    libraryReadable,   \* FALSE: readdir of the library directory raises
    copyFails,         \* identifiers whose fs copy raises (I/O fault)
    target,            \* target directory: file name -> content
    targetDirExists,   \* whether the target directory exists
    pc,                \* position of processLogos
    logoNames,         \* argument of the current call
    options,           \* argument of the current call
    availableLogos,    \* local: result of getAvailableLogos
    results,           \* local: the accumulated LogoOperationResult list
    owner,             \* history: owner[k] = index of the name that pushed results[k]
    nameIdx,           \* outer loop position (1-based)
    filteredVariants,  \* local: filterByVariants(...) of the current name
    variantIdx,        \* inner loop position (1-based)
    runs,              \* number of calls started so far
    targetAtCall,      \* history: target when the current call started
    prevCall,          \* history: the previous completed call, None before it
    dirExistedAtCall,  \* history: targetDirExists when the current call started
    existedAtPush,     \* history: existedAtPush[k] = the file of results[k].logoName was
                       \*          in the target when results[k] was pushed
    fsWork,            \* history: the kinds of file-system operations performed so far
    \* ---- the add command (Add.run) ----
    argv,              \* the names given on the command line
    flags,             \* the parsed flags
    addPc,             \* position of Add.run
    directory,         \* the answer to the directory prompt, None before it
    customTargetDirectory,  \* the module variable of that name, None for null
    exitStatus,        \* exit status of the command, None while it runs
    \* ---- the project directories that decide the target path ----
    cwd,               \* process.cwd(), a path: the sequence of its directory names
    dirs,              \* the directories that exist, as paths
    regularFiles,      \* the regular files that exist, as paths (package.json apart)
    pkg,               \* directory -> brandcn.outputDir of its package.json (None: not set)
    pathPc,            \* position of the run in its dealings with the target path
    processed,         \* identifiers processLogos has dealt with in this run
    pathRuns,          \* number of runs of the command started so far
    resolvedTargets,   \* history: the directories that the existence checks and the
                       \*          copies of this run resolved the target path to
    overrideSets,      \* history: calls of setCustomTargetDirectory in this run
    persisted          \* history: the last override stored in a package.json and the
                       \*          directory it stood for, None before it

validateVars == <<rawNames, validation>>
variantVars  == <<brandName, candidateLogos, variantFlags, foundVariants, filteredLogos>>
processVars  == <<library, libraryReadable, copyFails, target, targetDirExists, pc,
                  logoNames, options, availableLogos, results, owner, nameIdx,
                  filteredVariants, variantIdx, runs, targetAtCall, prevCall,
                  dirExistedAtCall, existedAtPush, fsWork>>
addVars      == <<argv, flags, addPc, directory, customTargetDirectory, exitStatus>>
pathVars     == <<cwd, dirs, regularFiles, pkg, pathPc, processed, pathRuns, resolvedTargets,
                  overrideSets, persisted>>
vars == <<validateVars, variantVars, processVars, addVars, pathVars>>

\* an optional value: None before it is set, Some(v) afterwards
None == <<>>
Some(v) == <<v>>
valueOf(opt) == opt[1]

(***************************************************************************)
(* Bounds                                                                  *)
(***************************************************************************)
MaxRawNames == 3     \* longest argument list of validateLogoNames
MaxCandidates == 3   \* longest identifier list of findLogoVariants / filterByVariants
MaxNames == 2        \* longest argument list of processLogos
MaxExisting == 1     \* most files in the target directory before the first call
MaxFaults == 1       \* most identifiers whose copy raises
MaxRuns == 2         \* calls of processLogos in one behaviour
MaxArgs == 2         \* most names on the command line of the add command

(***************************************************************************)
(* JavaScript string primitives                                            *)
(***************************************************************************)
\* Runs of consecutive UTF-16 code units: <<first code, the characters>>.
\* The characters outside these runs do not occur in any string of the model.
CodeRuns == { <<32, " ">>, <<45, "-.">>, <<48, "0123456789">>,
              <<64, "@ABCDEFGHIJKLMNOPQRSTUVWXYZ">>, <<95, "_">>,
              <<97, "abcdefghijklmnopqrstuvwxyz">> }

charAt(s, i) == SubSeq(s, i, i)

\* UTF-16 code unit of a one-character string
CodeTable ==
    LET pairs == UNION { { <<charAt(r[2], i), r[1] + i - 1>> : i \in 1..Len(r[2]) } : r \in CodeRuns }
    IN  [c \in {p[1] : p \in pairs} |-> (CHOOSE p \in pairs : p[1] = c)[2]]
charCode(c) == CodeTable[c]
fromCharCode(n) == CHOOSE c \in DOMAIN CodeTable : CodeTable[c] = n

\* the lower-case form of a character: A-Z (65..90) move up by 32
LowerTable ==
    [c \in DOMAIN CodeTable |->
        IF CodeTable[c] >= 65 /\ CodeTable[c] <= 90 THEN fromCharCode(CodeTable[c] + 32) ELSE c]

RECURSIVE toLowerCase(_)
toLowerCase(s) ==
    IF Len(s) = 0 THEN ""
    ELSE LowerTable[charAt(s, 1)] \o toLowerCase(SubSeq(s, 2, Len(s)))

startsWith(s, prefix) ==
    Len(prefix) <= Len(s) /\ SubSeq(s, 1, Len(prefix)) = prefix

endsWith(s, suffix) ==
    Len(suffix) <= Len(s) /\ SubSeq(s, Len(s) - Len(suffix) + 1, Len(s)) = suffix

\* index (1-based) of the first occurrence of sub in s, 0 when there is none
indexOf(s, sub) ==
    LET hits == {i \in 1..(Len(s) - Len(sub) + 1) : SubSeq(s, i, i + Len(sub) - 1) = sub}
    IN  IF hits = {} THEN 0 ELSE CHOOSE i \in hits : \A j \in hits : i <= j

includes(s, sub) == indexOf(s, sub) # 0

\* s.slice(n): the string without its first n characters
slice(s, n) == SubSeq(s, n + 1, Len(s))

\* s.replace(sub, ''): removes the FIRST occurrence of sub only
replaceFirst(s, sub) ==
    LET i == indexOf(s, sub)
    IN  IF i = 0 THEN s ELSE SubSeq(s, 1, i - 1) \o SubSeq(s, i + Len(sub), Len(s))

\* s.split(sep)[0]: the part of s before the first sep (all of s without one)
splitFirst(s, sep) ==
    LET i == indexOf(s, sep)
    IN  IF i = 0 THEN s ELSE SubSeq(s, 1, i - 1)

\* s.trim(): s without its leading and trailing spaces
RECURSIVE trim(_)
trim(s) ==
    IF Len(s) = 0 THEN s
    ELSE IF charAt(s, 1) = " " THEN trim(SubSeq(s, 2, Len(s)))
    ELSE IF charAt(s, Len(s)) = " " THEN trim(SubSeq(s, 1, Len(s) - 1))
    ELSE s

\* the default comparison of Array.prototype.sort: by UTF-16 code units
RECURSIVE strLess(_, _)
strLess(a, b) ==
    IF Len(b) = 0 THEN FALSE
    ELSE IF Len(a) = 0 THEN TRUE
    ELSE LET x == charCode(charAt(a, 1))
             y == charCode(charAt(b, 1))
         IN  IF x # y THEN x < y
             ELSE strLess(SubSeq(a, 2, Len(a)), SubSeq(b, 2, Len(b)))

Range(seq) == {seq[i] : i \in 1..Len(seq)}

\* all sequences over S of length at most n
SeqsUpTo(S, n) == UNION {[1..k -> S] : k \in 0..n}

(***************************************************************************)
(* Name validation                                                         *)
(***************************************************************************)
EmptyMessage == "Logo name cannot be empty"
CharsetMessage == "Logo name must contain only alphanumeric characters, hyphens, or underscores"

\* the character class [a-zA-Z0-9_-] of the regular expression
inNameClass(c) ==
    LET n == charCode(c)
    IN  \/ n >= 97 /\ n <= 122
        \/ n >= 65 /\ n <= 90
        \/ n >= 48 /\ n <= 57
        \/ c = "_"
        \/ c = "-"

\* /^[a-zA-Z0-9_-]+$/.test(s)
matchesNameRegex(s) ==
    Len(s) >= 1 /\ \A i \in 1..Len(s) : inNameClass(charAt(s, i))

\* mutant: the empty-string check runs after the regex check
logoNameIssuesRegexFirst(name) ==
    (IF ~matchesNameRegex(name) THEN <<CharsetMessage>> ELSE <<>>)
        \o (IF Len(name) < 1 THEN <<EmptyMessage>> ELSE <<>>)

\* logoNameSchema: the issues zod collects, .min(1) first, then .regex()
logoNameIssues(name) ==
    (IF Len(name) < 1 THEN <<EmptyMessage>> ELSE <<>>)
        \o (IF ~matchesNameRegex(name) THEN <<CharsetMessage>> ELSE <<>>)

\* mutant: the schema without the regex, so that any non-empty name passes
parseLogoNameNoRegex(name) ==
    LET issues == IF Len(name) < 1 THEN <<EmptyMessage>> ELSE <<>>
    IN  [success |-> issues = <<>>, data |-> name, issues |-> issues]

parseLogoName(name) ==
    LET issues == logoNameIssues(name)
    IN  [success |-> issues = <<>>, data |-> name, issues |-> issues]

RECURSIVE validateLoop(_, _, _, _)
validateLoop(names, i, validNames, errors) ==
    IF i > Len(names) THEN
        [errors |-> errors, hasErrors |-> Len(errors) > 0, validNames |-> validNames]
    ELSE
        LET name == names[i]
            result == parseLogoName(name)
        IN  IF result.success THEN
                validateLoop(names, i + 1, Append(validNames, result.data), errors)
            ELSE
                validateLoop(names, i + 1, validNames,
                    Append(errors,
                        [error |-> IF Len(result.issues) >= 1 /\ result.issues[1] # ""
                                   THEN result.issues[1] ELSE "Invalid logo name",
                         name |-> name]))

validateLogoNames(names) == validateLoop(names, 1, <<>>, <<>>)

\* raw command-line arguments the validator is tried on
RawNamePool == {"", "x", "A-1_b", "a@b", "logo.name", "x y"}

(***************************************************************************)
(* Variant resolution and variant filtering                                *)
(***************************************************************************)
NoFlags == [dark |-> FALSE, light |-> FALSE, wordmark |-> FALSE]
AllFlags == [dark : BOOLEAN, light : BOOLEAN, wordmark : BOOLEAN]

\* mutant: the identifiers of the list are compared without lowercasing them
findLogoVariantsCaseSensitive(brand, logos) ==
    LET normalizedBrand == toLowerCase(brand)
        matches(logo) ==
            \/ logo = normalizedBrand
            \/ startsWith(logo, normalizedBrand \o "_")
            \/ /\ startsWith(logo, normalizedBrand \o "-")
               /\ includes(slice(logo, Len(normalizedBrand) + 1), "_")
    IN  SelectSeq(logos, matches)

findLogoVariants(brand, logos) ==
    LET normalizedBrand == toLowerCase(brand)
        matches(logo) ==
            LET logoLower == toLowerCase(logo)
            IN  \/ logoLower = normalizedBrand
                \/ startsWith(logoLower, normalizedBrand \o "_")
                \/ /\ startsWith(logoLower, normalizedBrand \o "-")
                   /\ includes(slice(logoLower, Len(normalizedBrand) + 1), "_")
    IN  SelectSeq(logos, matches)

variants == <<"_dark", "_light", "_wordmark">>

\* [dark && '_dark', light && '_light', wordmark && '_wordmark'].filter(Boolean)
requestedVariantsOf(opts) ==
    (IF opts.dark THEN <<"_dark">> ELSE <<>>)
        \o (IF opts.light THEN <<"_light">> ELSE <<>>)
        \o (IF opts.wordmark THEN <<"_wordmark">> ELSE <<>>)

\* the callback of logoNames.some(...) that looks for variants of a base logo
hasVariants(lowerName, names) ==
    \E k \in 1..Len(names) :
        LET otherLower == toLowerCase(names[k])
        IN  /\ otherLower # lowerName
            /\ \/ startsWith(otherLower, lowerName \o "_")
               \/ /\ includes(lowerName, "-")
                  /\ startsWith(otherLower, splitFirst(lowerName, "_") \o "_")

\* the callback of logoNames.filter(...)
keepsLogo(logoName, names, opts) ==
    LET lowerName == toLowerCase(logoName)
        requestedVariants == requestedVariantsOf(opts)
    IN  IF \E v \in Range(requestedVariants) : includes(lowerName, v) THEN TRUE
        ELSE IF \E v \in Range(variants) : includes(lowerName, v) THEN FALSE
        ELSE ~hasVariants(lowerName, names)

\* mutant: without the early return for an empty flag set
filterByVariantsAlwaysFilters(names, opts) ==
    LET keep(logoName) == keepsLogo(logoName, names, opts)
    IN  SelectSeq(names, keep)

\* mutant: a logo with a variant suffix that was not requested is kept
filterByVariantsLeaky(names, opts) ==
    IF ~opts.dark /\ ~opts.light /\ ~opts.wordmark THEN names
    ELSE LET keep(logoName) ==
                 \/ \E v \in Range(variants) : includes(toLowerCase(logoName), v)
                 \/ ~hasVariants(toLowerCase(logoName), names)
         IN  SelectSeq(names, keep)

filterByVariants(names, opts) ==
    IF ~opts.dark /\ ~opts.light /\ ~opts.wordmark THEN names
    ELSE LET keep(logoName) == keepsLogo(logoName, names, opts)
         IN  SelectSeq(names, keep)

\* identifier lists and brand names the two functions are tried on
CandidatePool == {"x", "x_dark", "X_Light", "x_wordmark_dark", "x_icon",
                  "x-y", "x-y_icon", "x-y_dark"}
BrandPool == {"x", "X", "x-y", "q"}

(***************************************************************************)
(* The library and target directories                                      *)
(***************************************************************************)
\* content of the library file f, and of a file the user put in the target
libraryContent(f) == <<"library", f>>
UserContent == <<"user">>

logoExists(logoName, files) == (logoName \o ".svg") \in files
logoExistsInLibrary(logoName) == logoExists(logoName, library)
logoExistsInTarget(logoName) == logoExists(logoName, DOMAIN target)

\* an enumeration of a set of distinct strings
RECURSIVE enumerate(_)
enumerate(S) ==
    IF S = {} THEN <<>>
    ELSE LET f == CHOOSE x \in S : \A y \in S \ {x} : strLess(x, y)
         IN  <<f>> \o enumerate(S \ {f})

\* Array.prototype.sort with the default comparison
RECURSIVE insertSorted(_, _)
insertSorted(sorted, x) ==
    IF sorted = <<>> THEN <<x>>
    ELSE IF strLess(x, Head(sorted)) THEN <<x>> \o sorted
    ELSE <<Head(sorted)>> \o insertSorted(Tail(sorted), x)

RECURSIVE sortStrings(_)
sortStrings(seq) ==
    IF seq = <<>> THEN <<>>
    ELSE insertSorted(sortStrings(SubSeq(seq, 1, Len(seq) - 1)), seq[Len(seq)])

\* files.filter(endsWith('.svg')).map(replace('.svg', '')).sort()
getAvailableLogos(files) ==
    LET listed == enumerate(files)
        isSvg(file) == endsWith(file, ".svg")
        svgFiles == SelectSeq(listed, isSvg)
    IN  sortStrings([i \in 1..Len(svgFiles) |-> replaceFirst(svgFiles[i], ".svg")])

\* mutant: the destination path lacks the .svg extension
copyWithoutExtension(files, logoName) ==
    IF logoName \in DOMAIN files THEN files
    ELSE [f \in DOMAIN files \cup {logoName} |->
             IF f = logoName THEN libraryContent(logoName \o ".svg") ELSE files[f]]

\* mutant: copy(sourcePath, destPath) with the default overwrite: true
copyOverwrite(files, logoName) ==
    [f \in DOMAIN files \cup {logoName \o ".svg"} |->
        IF f = logoName \o ".svg" THEN libraryContent(f) ELSE files[f]]

\* copy(sourcePath, destPath, {overwrite: false}): an existing file is left alone
copyNoOverwrite(files, logoName) ==
    LET file == logoName \o ".svg"
    IN  IF file \in DOMAIN files THEN files
        ELSE [f \in DOMAIN files \cup {file} |->
                 IF f = file THEN libraryContent(file) ELSE files[f]]

(***************************************************************************)
(* LogoOperationResult                                                     *)
(***************************************************************************)
AlreadyExistsReason == "Logo already exists in logos directory"
CopyErrorMessage == "EACCES: permission denied"
notFoundMessage(logoName) == "Logo \"" \o logoName \o "\" not found in library"
noVariantsMessage(logoName) ==
    "No variants found for \"" \o logoName \o "\" matching the specified flags"
copyNotFoundMessage(logoName) == "Logo \"" \o logoName \o ".svg\" not found in library"

\* mutant: the failure is reported under the lower-cased name
failureResultNormalized(logoName, message) ==
    [error |-> message, logoName |-> toLowerCase(logoName), success |-> FALSE]

failureResult(logoName, message) ==
    [error |-> message, logoName |-> logoName, success |-> FALSE]
\* mutant: the skipped Result lacks the reason
skippedResultNoReason(logoName) ==
    [logoName |-> logoName, skipped |-> TRUE, success |-> TRUE]

skippedResult(logoName) ==
    [logoName |-> logoName, reason |-> AlreadyExistsReason, skipped |-> TRUE, success |-> TRUE]
successResult(logoName) ==
    [logoName |-> logoName, success |-> TRUE]

isSkipped(r) == "skipped" \in DOMAIN r /\ r.skipped

\* library files, brand names and faults the batch processor is tried on
LibraryFilePool == {"x_icon.svg", "x_icon_dark.svg", "x_icon_light.svg", "notes.txt"}
NamePool == {"x_icon", "X_ICON_DARK"}

SubsetsUpTo(S, n) == {T \in SUBSET S : Cardinality(T) <= n}

(***************************************************************************)
(* Specification 1: validateLogoNames on bounded argument lists            *)
(***************************************************************************)
VariantVarsUnused ==
    /\ brandName = "" /\ candidateLogos = <<>> /\ variantFlags = None
    /\ foundVariants = None /\ filteredLogos = None
ValidateVarsUnused ==
    /\ rawNames = <<>> /\ validation = None
ProcessVarsUnused ==
    /\ library = {} /\ libraryReadable = TRUE /\ copyFails = {}
    /\ target = <<>> /\ targetDirExists = FALSE /\ pc = "idle"
    /\ logoNames = <<>> /\ options = NoFlags /\ availableLogos = <<>>
    /\ results = <<>> /\ owner = <<>> /\ nameIdx = 1
    /\ filteredVariants = <<>> /\ variantIdx = 1 /\ runs = 0
    /\ targetAtCall = <<>> /\ prevCall = None
    /\ dirExistedAtCall = FALSE /\ existedAtPush = <<>> /\ fsWork = {}
AddVarsUnused ==
    /\ argv = <<>> /\ flags = NoFlags /\ addPc = "start" /\ directory = None
    /\ customTargetDirectory = None /\ exitStatus = None

PathVarsUnused ==
    /\ cwd = <<>> /\ dirs = {} /\ regularFiles = {} /\ pkg = <<>>
    /\ pathPc = "start" /\ processed = {} /\ pathRuns = 0 /\ resolvedTargets = {}
    /\ overrideSets = 0 /\ persisted = None

InitValidate ==
    /\ rawNames \in SeqsUpTo(RawNamePool, MaxRawNames)
    /\ validation = None
    /\ VariantVarsUnused /\ ProcessVarsUnused /\ AddVarsUnused /\ PathVarsUnused

Validate ==
    /\ validation = None
    /\ validation' = Some(validateLogoNames(rawNames))
    /\ UNCHANGED <<rawNames, variantVars, processVars, addVars>>
    /\ UNCHANGED pathVars

NextValidate == Validate
SpecValidate == InitValidate /\ [][NextValidate]_vars

(***************************************************************************)
(* Specification 2: findLogoVariants and filterByVariants on bounded lists *)
(***************************************************************************)
InitVariants ==
    /\ brandName \in BrandPool
    /\ candidateLogos \in SeqsUpTo(CandidatePool, MaxCandidates)
    /\ variantFlags = None /\ foundVariants = None /\ filteredLogos = None
    /\ ValidateVarsUnused /\ ProcessVarsUnused /\ AddVarsUnused /\ PathVarsUnused

FindVariants ==
    /\ foundVariants = None
    /\ foundVariants' = Some(findLogoVariants(brandName, candidateLogos))
    /\ UNCHANGED <<brandName, candidateLogos, variantFlags, filteredLogos,
                   validateVars, processVars, addVars>>
    /\ UNCHANGED pathVars

FilterVariants ==
    /\ foundVariants # None /\ filteredLogos = None
    /\ \E opts \in AllFlags :
          /\ variantFlags' = Some(opts)
          /\ filteredLogos' = Some(filterByVariants(candidateLogos, opts))
    /\ UNCHANGED <<brandName, candidateLogos, foundVariants, validateVars, processVars,
                   addVars>>
    /\ UNCHANGED pathVars

NextVariants == FindVariants \/ FilterVariants
SpecVariants == InitVariants /\ [][NextVariants]_vars

(***************************************************************************)
(* Specification 3: processLogos against a library and a target directory  *)
(***************************************************************************)
Init ==
    /\ VariantVarsUnused /\ ValidateVarsUnused /\ AddVarsUnused /\ PathVarsUnused
    /\ library \in SUBSET LibraryFilePool
    /\ libraryReadable \in BOOLEAN
    /\ copyFails \in SubsetsUpTo(Range(getAvailableLogos(library)), MaxFaults)
    /\ \E existing \in SubsetsUpTo({id \o ".svg" : id \in Range(getAvailableLogos(library))},
                                  MaxExisting) :
          /\ target = [f \in existing |-> UserContent]
          /\ targetDirExists \in (IF existing = {} THEN BOOLEAN ELSE {TRUE})
    /\ pc = "idle"
    /\ logoNames = <<>> /\ options = NoFlags /\ availableLogos = <<>>
    /\ results = <<>> /\ owner = <<>> /\ nameIdx = 1
    /\ filteredVariants = <<>> /\ variantIdx = 1 /\ runs = 0
    /\ targetAtCall = <<>> /\ prevCall = None
    /\ dirExistedAtCall = FALSE /\ existedAtPush = <<>> /\ fsWork = {}

envVars == <<library, libraryReadable, copyFails>>

\* the file-system work of getTargetLogosPath(): without an override it looks
\* for the configured output directory and for the src folder
targetPathWork == IF customTargetDirectory = None THEN {"config", "srcAccess"} ELSE {}

\* the call processLogos(names, opts): results = [] (line 199)
Enter(names, opts) ==
    /\ logoNames' = names /\ options' = opts
    /\ results' = <<>> /\ owner' = <<>> /\ existedAtPush' = <<>>
    /\ availableLogos' = <<>> /\ nameIdx' = 1
    /\ filteredVariants' = <<>> /\ variantIdx' = 1
    /\ runs' = runs + 1
    /\ targetAtCall' = target
    /\ dirExistedAtCall' = targetDirExists
    /\ pc' = "list"
    /\ UNCHANGED <<envVars, target, targetDirExists, fsWork, validateVars, variantVars>>
    /\ UNCHANGED pathVars

StartRun ==
    /\ pc = "idle" /\ runs = 0
    /\ \E names \in SeqsUpTo(NamePool, MaxNames), opts \in AllFlags : Enter(names, opts)
    /\ prevCall' = None
    /\ UNCHANGED addVars

\* the same command is run again in the same project
Rerun ==
    /\ pc \in {"done", "raised"} /\ runs < MaxRuns
    /\ Enter(logoNames, options)
    /\ prevCall' = Some([logoNames |-> logoNames, options |-> options, results |-> results,
                    raised |-> (pc = "raised"), targetBefore |-> targetAtCall])
    /\ UNCHANGED addVars

\* const availableLogos = await getAvailableLogos() (line 200)
ListLibrary ==
    /\ pc = "list"
    /\ fsWork' = fsWork \cup {"readdir"}
    /\ IF libraryReadable
       THEN /\ availableLogos' = getAvailableLogos(library)
            /\ pc' = "name"
       ELSE /\ pc' = "raised"
            /\ UNCHANGED availableLogos
    /\ UNCHANGED <<envVars, target, targetDirExists, logoNames, options, results, owner,
                   nameIdx, filteredVariants, variantIdx, runs, targetAtCall, prevCall,
                   dirExistedAtCall, existedAtPush, validateVars, variantVars, addVars>>
    /\ UNCHANGED pathVars

\* mutant: results.unshift(r), the newest Result comes first
pushFront(r) ==
    /\ results' = <<r>> \o results
    /\ owner' = <<nameIdx>> \o owner
    /\ existedAtPush' = <<logoExistsInTarget(r.logoName)>> \o existedAtPush

\* results.push(r) by the iteration of the current name
push(r) ==
    /\ results' = Append(results, r)
    /\ owner' = Append(owner, nameIdx)
    /\ existedAtPush' = Append(existedAtPush, logoExistsInTarget(r.logoName))

\* one iteration of the outer loop up to the inner loop (lines 202-229)
ResolveName ==
    /\ pc = "name" /\ nameIdx <= Len(logoNames)
    /\ LET logoName == logoNames[nameIdx]
           found == findLogoVariants(logoName, availableLogos)
           logoVariants == IF found # <<>> THEN found
                           ELSE IF logoExistsInLibrary(logoName) THEN <<logoName>>
                           ELSE <<>>
           filtered == filterByVariants(logoVariants, options)
       IN  /\ fsWork' = fsWork \cup (IF found = <<>> THEN {"libraryAccess"} ELSE {})
           /\ IF logoVariants = <<>> THEN
                  /\ push(failureResult(logoName, notFoundMessage(logoName)))
                  /\ nameIdx' = nameIdx + 1
                  /\ UNCHANGED <<pc, filteredVariants, variantIdx>>
              ELSE IF filtered = <<>> THEN
                  /\ push(failureResult(logoName, noVariantsMessage(logoName)))
                  /\ nameIdx' = nameIdx + 1
                  /\ UNCHANGED <<pc, filteredVariants, variantIdx>>
              ELSE
                  /\ filteredVariants' = filtered
                  /\ variantIdx' = 1
                  /\ pc' = "variant"
                  /\ UNCHANGED <<results, owner, existedAtPush, nameIdx>>
    /\ UNCHANGED <<envVars, target, targetDirExists, logoNames, options, availableLogos,
                   runs, targetAtCall, prevCall, dirExistedAtCall, validateVars, variantVars,
                   addVars>>
    /\ UNCHANGED pathVars

\* after the body of the inner loop: next variant, or next name after the last one
continueVariants ==
    IF variantIdx < Len(filteredVariants)
    THEN /\ variantIdx' = variantIdx + 1
         /\ UNCHANGED <<pc, nameIdx, filteredVariants>>
    ELSE /\ variantIdx' = 1
         /\ filteredVariants' = <<>>
         /\ nameIdx' = nameIdx + 1
         /\ pc' = "name"

\* mutant: an error of one name ends the loop over the names
catchAborts(message) ==
    /\ push(failureResult(logoNames[nameIdx], message))
    /\ nameIdx' = Len(logoNames) + 1
    /\ variantIdx' = 1
    /\ filteredVariants' = <<>>
    /\ pc' = "name"

\* mutant: without the try/catch, the error leaves processLogos
catchRethrows(message) ==
    /\ pc' = "raised"
    /\ variantIdx' = 1
    /\ filteredVariants' = <<>>
    /\ UNCHANGED <<results, owner, existedAtPush, nameIdx>>

\* the catch clause of the outer loop (lines 250-256): the iteration of the name ends
catch(message) ==
    /\ push(failureResult(logoNames[nameIdx], message))
    /\ nameIdx' = nameIdx + 1
    /\ variantIdx' = 1
    /\ filteredVariants' = <<>>
    /\ pc' = "name"

\* mutant: copyLogoToTarget makes the target directory before it looks for the
\* logo in the library
ProcessVariantEnsuresFirst ==
    /\ pc = "variant" /\ variantIdx <= Len(filteredVariants)
    /\ LET variant == filteredVariants[variantIdx]
           checked == fsWork \cup {"targetAccess"} \cup targetPathWork
       IN  IF logoExistsInTarget(variant) THEN
               /\ push(skippedResult(variant))
               /\ continueVariants
               /\ fsWork' = checked
               /\ UNCHANGED <<target, targetDirExists>>
           ELSE IF ~logoExistsInLibrary(variant) THEN
               /\ targetDirExists' = TRUE
               /\ catch(copyNotFoundMessage(variant))
               /\ fsWork' = checked \cup {"ensureDir", "libraryAccess"}
               /\ UNCHANGED target
           ELSE IF variant \in copyFails THEN
               /\ targetDirExists' = TRUE
               /\ catch(CopyErrorMessage)
               /\ fsWork' = checked \cup {"libraryAccess", "ensureDir", "copy"}
               /\ UNCHANGED target
           ELSE
               /\ targetDirExists' = TRUE
               /\ target' = copyNoOverwrite(target, variant)
               /\ push(successResult(variant))
               /\ continueVariants
               /\ fsWork' = checked \cup {"libraryAccess", "ensureDir", "copy"}
    /\ UNCHANGED <<envVars, logoNames, options, availableLogos,
                   runs, targetAtCall, prevCall, dirExistedAtCall, validateVars, variantVars,
                   addVars>>
    /\ UNCHANGED pathVars

\* one iteration of the inner loop (lines 231-249), copyLogoToTarget included
ProcessVariant ==
    /\ pc = "variant" /\ variantIdx <= Len(filteredVariants)
    /\ LET variant == filteredVariants[variantIdx]
           checked == fsWork \cup {"targetAccess"} \cup targetPathWork
       IN  IF logoExistsInTarget(variant) THEN
               /\ push(skippedResult(variant))
               /\ continueVariants
               /\ fsWork' = checked
               /\ UNCHANGED <<target, targetDirExists>>
           ELSE IF ~logoExistsInLibrary(variant) THEN
               /\ catch(copyNotFoundMessage(variant))
               /\ fsWork' = checked \cup {"libraryAccess"}
               /\ UNCHANGED <<target, targetDirExists>>
           ELSE IF variant \in copyFails THEN
               /\ targetDirExists' = TRUE
               /\ catch(CopyErrorMessage)
               /\ fsWork' = checked \cup {"libraryAccess", "ensureDir", "copy"}
               /\ UNCHANGED target
           ELSE
               /\ targetDirExists' = TRUE
               /\ target' = copyNoOverwrite(target, variant)
               /\ push(successResult(variant))
               /\ continueVariants
               /\ fsWork' = checked \cup {"libraryAccess", "ensureDir", "copy"}
    /\ UNCHANGED <<envVars, logoNames, options, availableLogos,
                   runs, targetAtCall, prevCall, dirExistedAtCall, validateVars, variantVars,
                   addVars>>
    /\ UNCHANGED pathVars

\* return results (line 259)
Return ==
    /\ pc = "name" /\ nameIdx > Len(logoNames)
    /\ pc' = "done"
    /\ UNCHANGED <<envVars, target, targetDirExists, logoNames, options, availableLogos,
                   results, owner, nameIdx, filteredVariants, variantIdx, runs,
                   targetAtCall, prevCall, dirExistedAtCall, existedAtPush, fsWork,
                   validateVars, variantVars, addVars>>
    /\ UNCHANGED pathVars

Next == StartRun \/ Rerun \/ ListLibrary \/ ResolveName \/ ProcessVariant \/ Return
Spec == Init /\ [][Next]_vars

(***************************************************************************)
(* Specification 4: the add command (Add.run) around processLogos          *)
(***************************************************************************)
\* command-line names, library files and prompt answers the command is tried on
ArgPool == {"x_icon", "X_ICON_DARK", "a@b"}
AddLibraryPool == {"x_icon.svg", "x_icon_dark.svg"}
CancelSymbol == "clack:cancel"
DefaultAnswer == "components/logos"
PromptAnswers == {CancelSymbol, DefaultAnswer, "", " assets "}

InitAdd ==
    /\ VariantVarsUnused /\ ValidateVarsUnused /\ PathVarsUnused
    /\ library \in SUBSET AddLibraryPool
    /\ libraryReadable \in BOOLEAN
    /\ copyFails \in SubsetsUpTo(Range(getAvailableLogos(library)), MaxFaults)
    /\ \E existing \in SubsetsUpTo({id \o ".svg" : id \in Range(getAvailableLogos(library))},
                                  MaxExisting) :
          /\ target = [f \in existing |-> UserContent]
          /\ targetDirExists \in (IF existing = {} THEN BOOLEAN ELSE {TRUE})
    /\ pc = "idle"
    /\ logoNames = <<>> /\ options = NoFlags /\ availableLogos = <<>>
    /\ results = <<>> /\ owner = <<>> /\ nameIdx = 1
    /\ filteredVariants = <<>> /\ variantIdx = 1 /\ runs = 0
    /\ targetAtCall = <<>> /\ prevCall = None
    /\ dirExistedAtCall = FALSE /\ existedAtPush = <<>> /\ fsWork = {}
    /\ argv \in SeqsUpTo(ArgPool, MaxArgs)
    /\ flags \in AllFlags
    /\ addPc = "start" /\ directory = None
    /\ customTargetDirectory = None /\ exitStatus = None

\* this.exit(code)
exit(code) ==
    /\ addPc' = "exited"
    /\ exitStatus' = Some(code)

processLocals == <<pc, logoNames, options, availableLogos, results, owner, nameIdx,
                   filteredVariants, variantIdx, runs, targetAtCall, prevCall,
                   dirExistedAtCall, existedAtPush>>

\* mutant: the target directory is looked up before the names are validated
AddValidateAfterDirectoryCheck ==
    /\ addPc = "start"
    /\ fsWork' = fsWork \cup {"targetAccess"} \cup targetPathWork
    /\ IF Len(argv) = 0 THEN
           /\ exit(1)
           /\ UNCHANGED validateVars
       ELSE
           LET v == validateLogoNames(argv)
           IN  /\ rawNames' = argv
               /\ validation' = Some(v)
               /\ IF v.hasErrors \/ Len(v.validNames) = 0
                  THEN exit(1)
                  ELSE addPc' = "directory" /\ UNCHANGED exitStatus
    /\ UNCHANGED <<envVars, target, targetDirExists, processLocals, variantVars,
                   argv, flags, directory, customTargetDirectory>>
    /\ UNCHANGED pathVars

\* parse, the check for names and validateLogoNames (part_003 lines 40-66)
AddValidate ==
    /\ addPc = "start"
    /\ IF Len(argv) = 0 THEN
           /\ exit(1)
           /\ UNCHANGED validateVars
       ELSE
           LET v == validateLogoNames(argv)
           IN  /\ rawNames' = argv
               /\ validation' = Some(v)
               /\ IF v.hasErrors THEN exit(1)
                  ELSE IF Len(v.validNames) = 0 THEN exit(1)
                  ELSE addPc' = "directory" /\ UNCHANGED exitStatus
    /\ UNCHANGED <<envVars, target, targetDirExists, fsWork, processLocals, variantVars,
                   argv, flags, directory, customTargetDirectory>>
    /\ UNCHANGED pathVars

\* const directoryExists = await targetDirectoryExists() (part_003 lines 68-69)
AddCheckDirectory ==
    /\ addPc = "directory"
    /\ fsWork' = fsWork \cup {"targetAccess"} \cup targetPathWork
    /\ addPc' = IF targetDirExists THEN "process" ELSE "prompt"
    /\ UNCHANGED <<envVars, target, targetDirExists, processLocals, validateVars,
                   variantVars, argv, flags, directory, customTargetDirectory, exitStatus>>
    /\ UNCHANGED pathVars

\* the prompt for a directory and setCustomTargetDirectory (part_003 lines 70-86,
\* validate.ts lines 72-76); the directory the override resolves to is in any state
AddPrompt ==
    /\ addPc = "prompt"
    /\ \E answer \in PromptAnswers :
          /\ directory' = Some(answer)
          /\ IF answer = CancelSymbol THEN
                 /\ exit(0)
                 /\ fsWork' = fsWork \cup {"srcAccess"}
                 /\ UNCHANGED <<customTargetDirectory, target, targetDirExists>>
             ELSE IF answer # DefaultAnswer THEN
                 /\ customTargetDirectory' =
                        Some(IF trim(answer) # "" THEN trim(answer) ELSE DefaultAnswer)
                 /\ fsWork' = fsWork \cup {"srcAccess", "config"}
                 /\ \E existing \in SubsetsUpTo({f \in library : endsWith(f, ".svg")},
                                               MaxExisting) :
                       /\ target' = [f \in existing |-> UserContent]
                       /\ targetDirExists' \in (IF existing = {} THEN BOOLEAN ELSE {TRUE})
                 /\ addPc' = "process"
                 /\ UNCHANGED exitStatus
             ELSE
                 /\ addPc' = "process"
                 /\ fsWork' = fsWork \cup {"srcAccess"}
                 /\ UNCHANGED <<customTargetDirectory, target, targetDirExists, exitStatus>>
    /\ UNCHANGED <<envVars, processLocals, validateVars, variantVars, argv, flags>>
    /\ UNCHANGED pathVars

\* const results = await processLogos(validation.validNames, flags): the call
\* (part_003 lines 88-94)
AddProcess ==
    /\ addPc = "process"
    /\ Enter(valueOf(validation).validNames, flags)
    /\ addPc' = "await"
    /\ UNCHANGED <<prevCall, argv, flags, directory, customTargetDirectory, exitStatus>>

hasFailures == \E k \in 1..Len(results) : ~results[k].success
hasSuccesses == \E k \in 1..Len(results) : results[k].success

\* mutant: any failed Result gives exit status 1
AddFinishFailsOnAnyFailure ==
    /\ addPc = "await" /\ pc \in {"done", "raised"}
    /\ IF pc = "raised" THEN exit(1)
       ELSE IF hasFailures THEN exit(1)
       ELSE exit(0)
    /\ UNCHANGED <<envVars, target, targetDirExists, fsWork, processLocals, validateVars,
                   variantVars, argv, flags, directory, customTargetDirectory>>
    /\ UNCHANGED pathVars

\* the outcome of processLogos decides the exit status (part_003 lines 96-135):
\* this.exit(1) of line 109 raises inside the try block and ends in line 134
AddFinish ==
    /\ addPc = "await" /\ pc \in {"done", "raised"}
    /\ IF pc = "raised" THEN exit(1)
       ELSE IF hasFailures /\ ~hasSuccesses THEN exit(1)
       ELSE exit(0)
    /\ UNCHANGED <<envVars, target, targetDirExists, fsWork, processLocals, validateVars,
                   variantVars, argv, flags, directory, customTargetDirectory>>
    /\ UNCHANGED pathVars

NextAdd ==
    \/ AddValidate \/ AddCheckDirectory \/ AddPrompt \/ AddProcess
    \/ ListLibrary \/ ResolveName \/ ProcessVariant \/ Return
    \/ AddFinish
SpecAdd == InitAdd /\ [][NextAdd]_vars

(***************************************************************************)
(* Specification 5: the target path of the add command.  A path is the     *)
(* sequence of its directory names from the root; a disk is a record of    *)
(* the directories, the regular files and the package.json files.          *)
(***************************************************************************)
MaxPathRuns == 2

Disk == [dirs |-> dirs, files |-> regularFiles, pkg |-> pkg]

\* fs.pathExistsSync(path)
pathExists(disk, path) == path \in disk.dirs \cup disk.files

\* s.split('/'): the parts of s between the slashes
RECURSIVE splitPath(_)
splitPath(s) ==
    LET i == indexOf(s, "/")
    IN  IF i = 0 THEN <<s>>
        ELSE <<SubSeq(s, 1, i - 1)>> \o splitPath(SubSeq(s, i + 1, Len(s)))

\* the normalisation of path.resolve: "" and "." name the directory itself and
\* ".." its parent (the root is its own parent)
RECURSIVE walkSegments(_, _)
walkSegments(path, segments) ==
    IF segments = <<>> THEN path
    ELSE LET seg == Head(segments)
             next == IF seg \in {"", "."} THEN path
                     ELSE IF seg = ".." THEN
                         (IF path = <<>> THEN path ELSE SubSeq(path, 1, Len(path) - 1))
                     ELSE Append(path, seg)
         IN  walkSegments(next, Tail(segments))

\* path.resolve(base, s) for an absolute base: an absolute s replaces the base
resolve(base, s) ==
    walkSegments(IF startsWith(s, "/") THEN <<>> ELSE base, splitPath(s))

\* path.dirname(path) of an absolute, normalised path
dirname(path) == IF path = <<>> THEN path ELSE SubSeq(path, 1, Len(path) - 1)

\* the directory whose package.json is the nearest one at or above startDir
RECURSIVE findNearestPackageJson(_, _)
findNearestPackageJson(disk, startDir) ==
    IF startDir \in DOMAIN disk.pkg THEN Some(startDir)
    ELSE IF dirname(startDir) = startDir THEN None
    ELSE findNearestPackageJson(disk, dirname(startDir))

\* brandcn.outputDir of the package.json of pkgDir, resolved against pkgDir
readBrandcnOutputDirFrom(disk, pkgDir) ==
    LET output == disk.pkg[pkgDir]
    IN  IF output # None /\ Len(trim(valueOf(output))) > 0
        THEN Some(resolve(pkgDir, trim(valueOf(output))))
        ELSE None

\* the directories <cwd>/apps/* and <cwd>/packages/* that hold a package.json
listWorkspacePackageJsonCandidates(disk) ==
    UNION { IF resolve(cwd, root) \in disk.dirs
            THEN {d \in DOMAIN disk.pkg : Len(d) > 0 /\ dirname(d) = resolve(cwd, root)}
            ELSE {}
            : root \in {"apps", "packages"} }

getConfiguredOutputDir(disk) ==
    LET nearest == findNearestPackageJson(disk, cwd)
        absFromNearest ==
            IF nearest # None THEN readBrandcnOutputDirFrom(disk, valueOf(nearest)) ELSE None
        workspacePkgs == listWorkspacePackageJsonCandidates(disk)
        configuredPkgs == {d \in workspacePkgs : readBrandcnOutputDirFrom(disk, d) # None}
    IN  IF absFromNearest # None THEN absFromNearest
        ELSE IF Cardinality(configuredPkgs) = 1
        THEN readBrandcnOutputDirFrom(disk, CHOOSE d \in configuredPkgs : TRUE)
        ELSE None

\* mutant: anything named src counts, a regular file included
getDefaultDirectoryPathAnyEntry(disk) ==
    IF pathExists(disk, resolve(cwd, "src")) THEN "src/components/logos"
    ELSE DefaultAnswer

getDefaultDirectoryPath(disk) ==
    LET srcPath == resolve(cwd, "src")
    IN  IF pathExists(disk, srcPath) /\ srcPath \in disk.dirs THEN "src/components/logos"
        ELSE DefaultAnswer

\* mutant: the src directory is looked at before the configured directory
getTargetLogosPathSrcFirst(disk, custom) ==
    IF custom # None THEN resolve(cwd, valueOf(custom))
    ELSE IF getDefaultDirectoryPath(disk) # DefaultAnswer
    THEN resolve(cwd, getDefaultDirectoryPath(disk))
    ELSE IF getConfiguredOutputDir(disk) # None THEN valueOf(getConfiguredOutputDir(disk))
    ELSE resolve(cwd, getDefaultDirectoryPath(disk))

getTargetLogosPath(disk, custom) ==
    IF custom # None THEN resolve(cwd, valueOf(custom))
    ELSE IF getConfiguredOutputDir(disk) # None THEN valueOf(getConfiguredOutputDir(disk))
    ELSE resolve(cwd, getDefaultDirectoryPath(disk))

\* directory?.toString().trim() || 'components/logos'
normalized(answer) == IF trim(answer) # "" THEN trim(answer) ELSE DefaultAnswer

\* the directory of the package.json that persistConfiguredOutputDir writes to
persistPkgPath(disk, answer) ==
    LET absTarget == resolve(cwd, normalized(answer))
        nearestFromTarget == findNearestPackageJson(disk, dirname(absTarget))
        nearestFromCwd == findNearestPackageJson(disk, cwd)
    IN  IF nearestFromTarget # None THEN nearestFromTarget ELSE nearestFromCwd

\* brandcn.outputDir becomes the override as it was typed, not its absolute path
persistConfiguredOutputDir(answer) ==
    LET pkgPath == persistPkgPath(Disk, answer)
    IN  IF pkgPath = None THEN UNCHANGED <<pkg, persisted>>
        ELSE /\ pkg' = [pkg EXCEPT ![valueOf(pkgPath)] = Some(normalized(answer))]
             /\ persisted' = Some([outputDir |-> normalized(answer),
                                   target |-> resolve(cwd, normalized(answer)),
                                   run |-> pathRuns])

setCustomTargetDirectory(answer) ==
    /\ customTargetDirectory' = Some(normalized(answer))
    /\ overrideSets' = overrideSets + 1
    /\ persistConfiguredOutputDir(answer)

\* ensureDir(path): creates the missing directories of path from the root down and
\* raises at the first name that is a regular file
ensureDir(disk, path) ==
    LET prefixes == {SubSeq(path, 1, k) : k \in 0..Len(path)}
        blocked == {q \in prefixes : q \in disk.files}
        made == {q \in prefixes : \A b \in blocked : Len(q) < Len(b)}
    IN  [ok |-> blocked = {}, disk |-> [disk EXCEPT !.dirs = disk.dirs \cup made]]

\* copy(sourcePath, destPath, {overwrite: false}): makes the directory of destPath
\* and writes the file unless something has that name already
copy(disk, destPath) ==
    LET parent == ensureDir(disk, dirname(destPath))
    IN  IF parent.ok /\ ~pathExists(parent.disk, destPath)
        THEN [parent.disk EXCEPT !.files = parent.disk.files \cup {destPath}]
        ELSE parent.disk

PathCwdPool == {<<"p">>, <<"p", "apps", "w">>}
PathLogoPool == {"x_icon", "x_icon_dark"}
PathAnswers == {CancelSymbol, DefaultAnswer, "", " logos ", "../logos", "apps/w/logos",
                "src/logos", "/p/logos"}

\* the package.json files of a project: at the root and in two workspace packages
PathPkgPool ==
    { [d \in S |-> IF d = <<"p", "apps", "v">> THEN Some("assets")
                   ELSE IF d \in C THEN Some("src/out") ELSE None]
      : S \in SUBSET {<<"p">>, <<"p", "apps", "w">>, <<"p", "apps", "v">>},
        C \in SUBSET {<<"p">>, <<"p", "apps", "w">>} }

prefixesOf(paths) == UNION { {SubSeq(q, 1, k) : k \in 0..Len(q)} : q \in paths }

InitPaths ==
    /\ VariantVarsUnused /\ ValidateVarsUnused /\ ProcessVarsUnused /\ AddVarsUnused
    /\ cwd \in PathCwdPool
    /\ pkg \in PathPkgPool
    /\ \E srcKind \in {"none", "dir", "file"}, withTarget \in BOOLEAN :
          /\ regularFiles = IF srcKind = "file" THEN {Append(cwd, "src")} ELSE {}
          /\ dirs = prefixesOf({cwd} \cup DOMAIN pkg
                               \cup (IF srcKind = "dir" THEN {Append(cwd, "src")} ELSE {})
                               \cup (IF withTarget THEN {cwd \o <<"components", "logos">>}
                                     ELSE {}))
    /\ pathPc = "directory" /\ processed = {} /\ pathRuns = 1
    /\ resolvedTargets = {} /\ overrideSets = 0 /\ persisted = None

pathFrame == <<validateVars, variantVars, processVars, argv, flags, addPc, directory,
               exitStatus>>

\* const directoryExists = await targetDirectoryExists() (part_003 line 68)
PathCheckDirectory ==
    /\ pathPc = "directory"
    /\ pathPc' = IF pathExists(Disk, getTargetLogosPath(Disk, customTargetDirectory))
                 THEN "process" ELSE "prompt"
    /\ UNCHANGED <<pathFrame, customTargetDirectory, cwd, dirs, regularFiles, pkg,
                   processed, pathRuns, resolvedTargets, overrideSets, persisted>>

\* the prompt and setCustomTargetDirectory (part_003 lines 70-86)
PathPrompt ==
    /\ pathPc = "prompt"
    /\ \E answer \in PathAnswers :
          IF answer = CancelSymbol THEN
              /\ pathPc' = "exited"
              /\ UNCHANGED <<customTargetDirectory, overrideSets, pkg, persisted>>
          ELSE IF answer # DefaultAnswer THEN
              /\ setCustomTargetDirectory(answer)
              /\ pathPc' = "process"
          ELSE
              /\ pathPc' = "process"
              /\ UNCHANGED <<customTargetDirectory, overrideSets, pkg, persisted>>
    /\ UNCHANGED <<pathFrame, cwd, dirs, regularFiles, processed, pathRuns, resolvedTargets>>

\* one identifier of processLogos: logoExistsInTarget, then copyLogoToTarget with
\* its ensureTargetDirectory and its copy, each resolving the target path anew
PathProcessIdentifier ==
    /\ pathPc = "process"
    /\ \E id \in PathLogoPool \ processed :
          LET checkPath == getTargetLogosPath(Disk, customTargetDirectory)
              ensurePath == getTargetLogosPath(Disk, customTargetDirectory)
              ensured == ensureDir(Disk, ensurePath)
              destDir == getTargetLogosPath(ensured.disk, customTargetDirectory)
              copied == copy(ensured.disk, Append(destDir, id \o ".svg"))
          IN  /\ processed' = processed \cup {id}
              /\ IF pathExists(Disk, Append(checkPath, id \o ".svg")) THEN
                     /\ resolvedTargets' = resolvedTargets \cup {checkPath}
                     /\ UNCHANGED <<dirs, regularFiles>>
                 ELSE IF ~ensured.ok THEN
                     /\ resolvedTargets' = resolvedTargets \cup {checkPath, ensurePath}
                     /\ dirs' = ensured.disk.dirs
                     /\ UNCHANGED regularFiles
                 ELSE
                     /\ resolvedTargets' = resolvedTargets \cup {checkPath, ensurePath, destDir}
                     /\ dirs' = copied.dirs
                     /\ regularFiles' = copied.files
    /\ UNCHANGED <<pathFrame, customTargetDirectory, cwd, pkg, pathPc, pathRuns,
                   overrideSets, persisted>>

\* processLogos has returned and the command ends
PathFinish ==
    /\ pathPc = "process"
    /\ pathPc' = "exited"
    /\ UNCHANGED <<pathFrame, customTargetDirectory, cwd, dirs, regularFiles, pkg,
                   processed, pathRuns, resolvedTargets, overrideSets, persisted>>

\* the command is started again from the same working directory: a new process,
\* whose customTargetDirectory is null
PathNewRun ==
    /\ pathPc = "exited" /\ pathRuns < MaxPathRuns
    /\ pathRuns' = pathRuns + 1
    /\ pathPc' = "directory"
    /\ customTargetDirectory' = None
    /\ processed' = {} /\ resolvedTargets' = {} /\ overrideSets' = 0
    /\ UNCHANGED <<pathFrame, cwd, dirs, regularFiles, pkg, persisted>>

NextPaths ==
    \/ PathCheckDirectory \/ PathPrompt \/ PathProcessIdentifier \/ PathFinish
    \/ PathNewRun
SpecPaths == InitPaths /\ [][NextPaths]_vars

(***************************************************************************)
(* Specification 6: processLogos on libraries whose file names hold ".svg" *)
(* more than once or in upper case, with validated brand names             *)
(***************************************************************************)
MaxResolveNames == 2
ResolveFilePool == {"x.svg", "X.svg", "x.svg_dark.svg", "x.svgz.svg", "notes.txt"}
ResolveNamePool == {"x", "X", "q"}
ResolveFlags == {NoFlags, [NoFlags EXCEPT !.dark = TRUE], [NoFlags EXCEPT !.light = TRUE]}

InitResolve ==
    /\ VariantVarsUnused /\ ValidateVarsUnused /\ AddVarsUnused /\ PathVarsUnused
    /\ library \in SUBSET ResolveFilePool
    /\ libraryReadable = TRUE
    /\ copyFails = {}
    /\ target = <<>>
    /\ targetDirExists \in BOOLEAN
    /\ pc = "idle"
    /\ logoNames = <<>> /\ options = NoFlags /\ availableLogos = <<>>
    /\ results = <<>> /\ owner = <<>> /\ nameIdx = 1
    /\ filteredVariants = <<>> /\ variantIdx = 1 /\ runs = 0
    /\ targetAtCall = <<>> /\ prevCall = None
    /\ dirExistedAtCall = FALSE /\ existedAtPush = <<>> /\ fsWork = {}

StartResolve ==
    /\ pc = "idle" /\ runs = 0
    /\ \E names \in SeqsUpTo(ResolveNamePool, MaxResolveNames), opts \in ResolveFlags :
          Enter(names, opts)
    /\ prevCall' = None
    /\ UNCHANGED addVars

NextResolve == StartResolve \/ ListLibrary \/ ResolveName \/ ProcessVariant \/ Return
SpecResolve == InitResolve /\ [][NextResolve]_vars

(***************************************************************************)
(* Specification 7: processLogos while another process writes to the       *)
(* target directory.  The existence check (line 233) and copyLogoToTarget  *)
(* (line 243) are separate steps, and the other process may act between.   *)
(***************************************************************************)
MaxForeign == 1
ForeignContent == <<"foreign">>
foreignFiles == {f \in DOMAIN target : target[f] = ForeignContent}

InitRace ==
    /\ VariantVarsUnused /\ ValidateVarsUnused /\ AddVarsUnused /\ PathVarsUnused
    /\ library \in SUBSET AddLibraryPool
    /\ libraryReadable = TRUE
    /\ copyFails \in SubsetsUpTo(Range(getAvailableLogos(library)), MaxFaults)
    /\ target = <<>>
    /\ targetDirExists \in BOOLEAN
    /\ pc = "idle"
    /\ logoNames = <<>> /\ options = NoFlags /\ availableLogos = <<>>
    /\ results = <<>> /\ owner = <<>> /\ nameIdx = 1
    /\ filteredVariants = <<>> /\ variantIdx = 1 /\ runs = 0
    /\ targetAtCall = <<>> /\ prevCall = None
    /\ dirExistedAtCall = FALSE /\ existedAtPush = <<>> /\ fsWork = {}

StartRace ==
    /\ pc = "idle" /\ runs = 0
    /\ \E names \in SeqsUpTo(NamePool, MaxNames), opts \in AllFlags : Enter(names, opts)
    /\ prevCall' = None
    /\ UNCHANGED addVars

raceFrame == <<envVars, logoNames, options, availableLogos, runs, targetAtCall, prevCall,
               dirExistedAtCall, validateVars, variantVars, addVars, pathVars>>

\* after the body of the inner loop, back at its head or at the next name
raceContinue ==
    IF variantIdx < Len(filteredVariants)
    THEN /\ variantIdx' = variantIdx + 1
         /\ pc' = "variant"
         /\ UNCHANGED <<nameIdx, filteredVariants>>
    ELSE /\ variantIdx' = 1
         /\ filteredVariants' = <<>>
         /\ nameIdx' = nameIdx + 1
         /\ pc' = "name"

\* const existsInTarget = await logoExistsInTarget(variant) (lines 232-241)
RaceCheckVariant ==
    /\ pc = "variant" /\ variantIdx <= Len(filteredVariants)
    /\ fsWork' = fsWork \cup {"targetAccess"} \cup targetPathWork
    /\ IF logoExistsInTarget(filteredVariants[variantIdx]) THEN
           /\ push(skippedResult(filteredVariants[variantIdx]))
           /\ raceContinue
       ELSE
           /\ pc' = "copy"
           /\ UNCHANGED <<results, owner, existedAtPush, nameIdx, filteredVariants, variantIdx>>
    /\ UNCHANGED <<raceFrame, target, targetDirExists>>

\* await copyLogoToTarget(variant) and the push of its Result (lines 243-256)
RaceCopyVariant ==
    /\ pc = "copy"
    /\ LET variant == filteredVariants[variantIdx]
       IN  IF ~logoExistsInLibrary(variant) THEN
               /\ catch(copyNotFoundMessage(variant))
               /\ fsWork' = fsWork \cup {"libraryAccess"}
               /\ UNCHANGED <<target, targetDirExists>>
           ELSE IF variant \in copyFails THEN
               /\ targetDirExists' = TRUE
               /\ catch(CopyErrorMessage)
               /\ fsWork' = fsWork \cup {"libraryAccess", "ensureDir", "copy"}
               /\ UNCHANGED target
           ELSE
               /\ targetDirExists' = TRUE
               /\ target' = copyNoOverwrite(target, variant)
               /\ push(successResult(variant))
               /\ raceContinue
               /\ fsWork' = fsWork \cup {"libraryAccess", "ensureDir", "copy"}
    /\ UNCHANGED raceFrame

\* another process creates the file of the identifier that processLogos is at
ForeignCreate ==
    /\ pc \in {"variant", "copy"}
    /\ Cardinality(foreignFiles) < MaxForeign
    /\ LET file == filteredVariants[variantIdx] \o ".svg"
       IN  /\ file \notin DOMAIN target
           /\ target' = [f \in DOMAIN target \cup {file} |->
                            IF f = file THEN ForeignContent ELSE target[f]]
    /\ targetDirExists' = TRUE
    /\ UNCHANGED <<raceFrame, pc, results, owner, existedAtPush, nameIdx, filteredVariants,
                   variantIdx, fsWork>>

NextRace ==
    \/ StartRace \/ ListLibrary \/ ResolveName \/ RaceCheckVariant \/ RaceCopyVariant
    \/ ForeignCreate \/ Return
SpecRace == InitRace /\ [][NextRace]_vars

(***************************************************************************)
(* Specification 8: the filterByVariants of utils/fs.ts, the second        *)
(* implementation of the repository, on the lists of specification 2       *)
(***************************************************************************)
\* what one pass of the loop pushes for logoName: once per requested flag whose
\* substring the name holds, or once as a base logo without variants in the list
pushedFor(logoName, names, opts) ==
    LET lowerName == toLowerCase(logoName)
        dark == opts.dark /\ includes(lowerName, "_dark")
        light == opts.light /\ includes(lowerName, "_light")
        wordmark == opts.wordmark /\ includes(lowerName, "_wordmark")
        matched == dark \/ light \/ wordmark
        base == /\ ~matched
                /\ ~includes(lowerName, "_dark") /\ ~includes(lowerName, "_light")
                /\ ~includes(lowerName, "_wordmark")
                /\ ~hasVariants(lowerName, names)
    IN  (IF dark THEN <<logoName>> ELSE <<>>)
            \o (IF light THEN <<logoName>> ELSE <<>>)
            \o (IF wordmark THEN <<logoName>> ELSE <<>>)
            \o (IF base THEN <<logoName>> ELSE <<>>)

RECURSIVE filteredUpTo(_, _, _)
filteredUpTo(n, names, opts) ==
    IF n = 0 THEN <<>>
    ELSE filteredUpTo(n - 1, names, opts) \o pushedFor(names[n], names, opts)

filterByVariantsFs(names, opts) ==
    IF ~opts.dark /\ ~opts.light /\ ~opts.wordmark THEN names
    ELSE filteredUpTo(Len(names), names, opts)

FilterVariantsFs ==
    /\ foundVariants # None /\ filteredLogos = None
    /\ \E opts \in AllFlags :
          /\ variantFlags' = Some(opts)
          /\ filteredLogos' = Some(filterByVariantsFs(candidateLogos, opts))
    /\ UNCHANGED <<brandName, candidateLogos, foundVariants, validateVars, processVars,
                   addVars, pathVars>>

NextVariantsFs == FindVariants \/ FilterVariantsFs
SpecVariantsFs == InitVariants /\ [][NextVariantsFs]_vars

(***************************************************************************)
(* Properties of validateLogoNames (checked under SpecValidate)            *)
(***************************************************************************)
NameCharacters == "ABCDEFGHIJKLMNOPQRSTUVWXYZabcdefghijklmnopqrstuvwxyz0123456789_-"

\* non-empty and only characters of [A-Za-z0-9_-]
IsWellFormed(name) ==
    /\ name # ""
    /\ \A i \in 1..Len(name) :
          \E j \in 1..Len(NameCharacters) : charAt(name, i) = charAt(NameCharacters, j)
IsMalformed(name) == ~IsWellFormed(name)

\* C1: validateLogoNames partitions its input: validNames is the subsequence
\* of well-formed names, unchanged and in input order; errors has one entry per
\* malformed name, in input order, keyed by the original string (duplicates
\* reported independently); the two lengths add up to the input length and
\* hasErrors is true iff errors is non-empty.
C1_ValidatePartitions ==
    validation # None =>
        LET v == valueOf(validation)
        IN  /\ v.validNames = SelectSeq(rawNames, IsWellFormed)
            /\ [i \in 1..Len(v.errors) |-> v.errors[i].name] = SelectSeq(rawNames, IsMalformed)
            /\ Len(v.validNames) + Len(v.errors) = Len(rawNames)
            /\ v.hasErrors <=> (v.errors # <<>>)

\* a call on a list with a well-formed name and the same malformed name twice
C1_Witness ==
    /\ validation # None
    /\ \E i, j, k \in 1..Len(rawNames) :
          /\ i < j /\ rawNames[i] = rawNames[j] /\ IsMalformed(rawNames[i])
          /\ IsWellFormed(rawNames[k])
    /\ Len(valueOf(validation).errors) = 2
    /\ Len(valueOf(validation).validNames) = 1

EmptyRuleText == "cannot be empty"
CharsetRuleText == "alphanumeric characters, hyphens, or underscores"

\* C2: the error reported for a malformed name identifies the violated rule:
\* the empty string gets the "cannot be empty" message and never the
\* character-class message; a non-empty name with a disallowed character gets
\* the message about "alphanumeric characters, hyphens, or underscores".
C2_MessageNamesViolatedRule ==
    validation # None =>
        LET errors == valueOf(validation).errors
        IN  /\ \A i \in 1..Len(errors) :
                  IF errors[i].name = ""
                  THEN /\ includes(errors[i].error, EmptyRuleText)
                       /\ ~includes(errors[i].error, CharsetRuleText)
                  ELSE includes(errors[i].error, CharsetRuleText)
            /\ \A i \in 1..Len(rawNames) :
                  IsMalformed(rawNames[i]) =>
                      \E k \in 1..Len(errors) : errors[k].name = rawNames[i]

\* a call that reported both the empty string and a name with a bad character
C2_Witness ==
    /\ validation # None
    /\ \E i, j \in 1..Len(valueOf(validation).errors) :
          /\ valueOf(validation).errors[i].name = ""
          /\ valueOf(validation).errors[j].name # ""

(***************************************************************************)
(* Properties of findLogoVariants and filterByVariants (SpecVariants)      *)
(***************************************************************************)
\* id is a variant sibling of base under the prefix rule of resolution
IsSiblingOf(id, base) ==
    LET i == toLowerCase(id)
        b == toLowerCase(base)
    IN  \/ startsWith(i, b \o "_")
        \/ /\ startsWith(i, b \o "-")
           /\ includes(SubSeq(i, Len(b) + 2, Len(i)), "_")

IsResolvedBy(id, brand) ==
    toLowerCase(id) = toLowerCase(brand) \/ IsSiblingOf(id, brand)

\* C3: findLogoVariants(B, L) returns exactly the identifiers of L that,
\* compared case-insensitively, equal B, start with B_ or start with B- with
\* an underscore in the remainder; verbatim and in the order of L.
C3_FindReturnsMatchesInOrder ==
    foundVariants # None =>
        LET resolves(id) == IsResolvedBy(id, brandName)
        IN  valueOf(foundVariants) = SelectSeq(candidateLogos, resolves)

\* a result holding an identifier with upper-case letters and one matched by
\* the hyphen rule only, from a list that also holds a non-matching identifier
C3_Witness ==
    /\ foundVariants # None
    /\ \E id \in Range(valueOf(foundVariants)) : id # toLowerCase(id)
    /\ \E id \in Range(valueOf(foundVariants)) :
          startsWith(toLowerCase(id), toLowerCase(brandName) \o "-")
    /\ Len(valueOf(foundVariants)) < Len(candidateLogos)

\* C4: with none of dark, light, wordmark set, filterByVariants returns its
\* input list unchanged.
C4_NoFlagsReturnsInput ==
    (filteredLogos # None /\ valueOf(variantFlags) = NoFlags) =>
        valueOf(filteredLogos) = candidateLogos

\* a call without flags on a list with a base logo and a variant of it
C4_Witness ==
    /\ filteredLogos # None /\ valueOf(variantFlags) = NoFlags
    /\ \E a, b \in Range(candidateLogos) : IsSiblingOf(b, a)
    /\ \E a \in Range(candidateLogos) : includes(toLowerCase(a), "_dark")

HasVariantSubstring(id) ==
    \/ includes(toLowerCase(id), "_dark")
    \/ includes(toLowerCase(id), "_light")
    \/ includes(toLowerCase(id), "_wordmark")

IsRequested(id, opts) ==
    \/ opts.dark /\ includes(toLowerCase(id), "_dark")
    \/ opts.light /\ includes(toLowerCase(id), "_light")
    \/ opts.wordmark /\ includes(toLowerCase(id), "_wordmark")

occurrences(seq, x) == Cardinality({i \in 1..Len(seq) : seq[i] = x})

\* C5: with at least one flag set, a candidate containing _dark, _light or
\* _wordmark is in the output iff it contains the substring of a requested
\* flag (as often as in the input): every requested variant is kept, no
\* unrequested variant leaks through.
C5_VariantKeptIffRequested ==
    (filteredLogos # None /\ valueOf(variantFlags) # NoFlags) =>
        \A id \in Range(candidateLogos) :
            HasVariantSubstring(id) =>
                occurrences(valueOf(filteredLogos), id) =
                    (IF IsRequested(id, valueOf(variantFlags))
                     THEN occurrences(candidateLogos, id) ELSE 0)

\* two flags set; a variant of one of them kept, an unrequested variant dropped
C5_Witness ==
    /\ filteredLogos # None
    /\ valueOf(variantFlags) = [dark |-> TRUE, light |-> FALSE, wordmark |-> TRUE]
    /\ \E id \in Range(valueOf(filteredLogos)) : HasVariantSubstring(id)
    /\ \E id \in Range(candidateLogos) :
          HasVariantSubstring(id) /\ id \notin Range(valueOf(filteredLogos))

\* C6: with at least one flag set, a base candidate (none of _dark, _light,
\* _wordmark) is in the output iff no other candidate of the list is its
\* variant sibling under the prefix rule of resolution (base_..., or base-...
\* with an underscore in the remainder).
C6_BaseKeptIffNoSibling ==
    (filteredLogos # None /\ valueOf(variantFlags) # NoFlags) =>
        \A id \in Range(candidateLogos) :
            ~HasVariantSubstring(id) =>
                ((id \in Range(valueOf(filteredLogos))) <=>
                    ~\E other \in Range(candidateLogos) : IsSiblingOf(other, id))

(***************************************************************************)
(* Properties of processLogos (checked under Spec)                         *)
(***************************************************************************)
DarkOnly == [dark |-> TRUE, light |-> FALSE, wordmark |-> FALSE]

\* the Results reported as successfully added
addedResults == {k \in 1..Len(results) : results[k].success /\ ~isSkipped(results[k])}

\* the Results pushed by the iteration of the i-th name, in order
resultsOf(i) ==
    LET mine(k) == owner[k] = i
        idx == SelectSeq([k \in 1..Len(results) |-> k], mine)
    IN  [n \in 1..Len(idx) |-> results[idx[n]]]

\* C7 as stated: with only the dark flag, every identifier reported as added
\* is a dark variant (contains _dark) or has no underscore at all.
C7_DarkOnlyAddsDarkOrNoUnderscore ==
    options = DarkOnly =>
        \A k \in addedResults :
            \/ includes(toLowerCase(results[k].logoName), "_dark")
            \/ ~includes(toLowerCase(results[k].logoName), "_")

\* C7 (amended): with only the dark flag, every identifier reported as added
\* is a dark variant (contains _dark) or contains none of _dark, _light,
\* _wordmark; it may contain another underscore suffix such as _icon.
C7_DarkOnlyAddsDarkOrUnsuffixed ==
    options = DarkOnly =>
        \A k \in addedResults :
            \/ includes(toLowerCase(results[k].logoName), "_dark")
            \/ ~HasVariantSubstring(results[k].logoName)

\* a dark-only call that added an identifier with an underscore suffix that is
\* none of the three variant suffixes
C7_Witness ==
    /\ pc = "done" /\ options = DarkOnly
    /\ \E k \in addedResults :
          /\ includes(results[k].logoName, "_")
          /\ ~HasVariantSubstring(results[k].logoName)

\* C8 as stated (for the calls in which no copy raises): every name whose base
\* identifier exists in the library gets at least one Result with success = true,
\* whatever the flags.
C8_BaseInLibraryGetsSuccess ==
    (pc = "done" /\ copyFails = {}) =>
        \A i \in 1..Len(logoNames) :
            logoExistsInLibrary(logoNames[i]) =>
                \E r \in Range(resultsOf(i)) : r.success

\* C8 (amended): every name whose base identifier exists in the library gets
\* at least one Result and is never reported as not found in the library; one
\* of its Results has success = true when no flag is set and no copy raises;
\* when none has, the name got the single failure "No variants found ...
\* matching the specified flags" of a call with flags, or the failure of a
\* copy that raised.
C8_BaseInLibraryIsResolved ==
    pc = "done" =>
        \A i \in 1..Len(logoNames) :
            logoExistsInLibrary(logoNames[i]) =>
                LET mine == resultsOf(i)
                    succeeded == \E r \in Range(mine) : r.success
                IN  /\ mine # <<>>
                    /\ \A r \in Range(mine) :
                          ~r.success => ~includes(r.error, "not found in library")
                    /\ (options = NoFlags /\ copyFails = {}) => succeeded
                    /\ ~succeeded =>
                          \/ /\ options # NoFlags
                             /\ mine = <<failureResult(logoNames[i],
                                                       noVariantsMessage(logoNames[i]))>>
                          \/ mine = <<failureResult(logoNames[i], CopyErrorMessage)>>

\* a call with flags, without copy faults, whose name has its base identifier
\* in the library and got only the failure for the flags
C8_Witness ==
    /\ pc = "done" /\ copyFails = {} /\ options # NoFlags
    /\ \E i \in 1..Len(logoNames) :
          /\ logoExistsInLibrary(logoNames[i])
          /\ resultsOf(i) = <<failureResult(logoNames[i], noVariantsMessage(logoNames[i]))>>

\* the identifiers the i-th name resolves to: the variants that pass the filter
resolvedIdentifiers(i) ==
    LET found == findLogoVariants(logoNames[i], availableLogos)
        logoVariants == IF found # <<>> THEN found
                        ELSE IF logoExistsInLibrary(logoNames[i]) THEN <<logoNames[i]>>
                        ELSE <<>>
    IN  filterByVariants(logoVariants, options)

\* C9: processLogos never overwrites: a file that was in the target before the
\* call is still there with the same content, and every resolved identifier
\* whose file was already there got a Result with success = true, skipped =
\* true and a reason containing "already exists".
C9_KeepsExistingAndReportsSkipped ==
    pc = "done" =>
        /\ \A f \in DOMAIN targetAtCall :
              f \in DOMAIN target /\ target[f] = targetAtCall[f]
        /\ \A i \in 1..Len(logoNames) :
              \A id \in Range(resolvedIdentifiers(i)) :
                  logoExists(id, DOMAIN targetAtCall) =>
                      \E r \in Range(resultsOf(i)) :
                          /\ r.logoName = id /\ r.success /\ isSkipped(r)
                          /\ includes(r.reason, "already exists")

\* C10: the same call run a second time against the same target gives, for
\* every identifier the first run added or skipped, a Result with success =
\* true and skipped = true, and leaves the files of the target unchanged.
C10_SecondRunSkipsEverything ==
    (pc = "done" /\ prevCall # None) =>
        LET first == valueOf(prevCall)
        IN  (~first.raised /\ first.logoNames = logoNames /\ first.options = options) =>
                /\ \A r1 \in Range(first.results) :
                      r1.success =>
                          \E r2 \in Range(results) :
                              r2.logoName = r1.logoName /\ r2.success /\ isSkipped(r2)
                /\ DOMAIN target = DOMAIN targetAtCall
                /\ target = targetAtCall

\* a second run after a first run that added one identifier and skipped another
C10_Witness ==
    /\ pc = "done" /\ prevCall # None
    /\ \E r1, r2 \in Range(valueOf(prevCall).results) :
          /\ r1.success /\ ~isSkipped(r1)
          /\ r2.success /\ isSkipped(r2)
    /\ \A r \in Range(results) : r.success => isSkipped(r)

\* the identifiers of the library: its .svg files without the extension
libraryIdentifiers ==
    {SubSeq(f, 1, Len(f) - 4) : f \in {g \in library : endsWith(g, ".svg")}}

\* name matches no identifier of the library: no variant match, no literal file
MatchesNothing(name) ==
    /\ \A id \in libraryIdentifiers : ~IsResolvedBy(id, name)
    /\ (name \o ".svg") \notin library

\* C11: a brand name that matches no identifier of the library gets exactly
\* one Result, with logoName equal to the original name, success = false and
\* an error containing "not found in library".
C11_UnmatchedNameGetsOneNotFound ==
    pc = "done" =>
        \A i \in 1..Len(logoNames) :
            MatchesNothing(logoNames[i]) =>
                /\ Len(resultsOf(i)) = 1
                /\ resultsOf(i)[1].logoName = logoNames[i]
                /\ ~resultsOf(i)[1].success
                /\ "error" \in DOMAIN resultsOf(i)[1]
                /\ includes(resultsOf(i)[1].error, "not found in library")

\* a call whose first name, written in upper case, matches nothing in a
\* non-empty library and whose second name was added
C11_Witness ==
    /\ pc = "done" /\ Len(logoNames) = 2
    /\ libraryIdentifiers # {}
    /\ MatchesNothing(logoNames[1])
    /\ logoNames[1] # toLowerCase(logoNames[1])
    /\ resultsOf(1) = <<failureResult(logoNames[1], notFoundMessage(logoNames[1]))>>
    /\ \E r \in Range(resultsOf(2)) : r.success /\ ~isSkipped(r)

\* the i-th name failed: one of its Results has success = false
nameFailed(i) == \E r \in Range(resultsOf(i)) : ~r.success

\* the i-th name is resolvable: it resolves to identifiers, none of whose copies raises
nameResolvable(i) ==
    /\ resolvedIdentifiers(i) # <<>>
    /\ \A id \in Range(resolvedIdentifiers(i)) : id \notin copyFails

\* C12: failures are isolated per brand name: after a name that failed (not
\* found, no variant matching the flags, or a copy that raised), every later
\* resolvable name still gets one success or skipped Result per resolved
\* identifier, and no failure of a name makes the call raise.
C12_FailureDoesNotStopLaterNames ==
    /\ pc = "raised" => results = <<>> /\ nameIdx = 1
    /\ pc = "done" =>
          \A i, j \in 1..Len(logoNames) :
              (i < j /\ nameFailed(i) /\ nameResolvable(j)) =>
                  /\ Len(resultsOf(j)) = Len(resolvedIdentifiers(j))
                  /\ \A n \in 1..Len(resultsOf(j)) :
                        /\ resultsOf(j)[n].logoName = resolvedIdentifiers(j)[n]
                        /\ resultsOf(j)[n].success

\* a call whose first name failed because a copy raised and whose second name
\* was added afterwards
C12_Witness ==
    /\ pc = "done" /\ Len(logoNames) = 2
    /\ \E r \in Range(resultsOf(1)) : ~r.success /\ r.error = CopyErrorMessage
    /\ nameResolvable(2)
    /\ \E r \in Range(resultsOf(2)) : r.success /\ ~isSkipped(r)

\* C13 as stated: processLogos never raises, whatever the state of the library
\* and of the target, a library that cannot be listed included.
C13_NeverRaises ==
    pc # "raised"

\* C13 (amended): processLogos raises only when the library cannot be listed,
\* and then before any name is processed; with a library that can be listed
\* the call never raises, is always at a name or an identifier it can go on
\* with until it returns, and returns a list with at least one Result per name.
C13_RaisesOnlyWhenUnlistable ==
    /\ pc = "raised" => ~libraryReadable /\ results = <<>> /\ nameIdx = 1
    /\ pc = "name" => nameIdx \in 1..(Len(logoNames) + 1)
    /\ pc = "variant" =>
          /\ nameIdx \in 1..Len(logoNames)
          /\ variantIdx \in 1..Len(filteredVariants)
    /\ pc = "done" =>
          /\ libraryReadable
          /\ \A i \in 1..Len(logoNames) : resultsOf(i) # <<>>

\* a call that returned although one name was not found and a copy raised for
\* the other
C13_Witness ==
    /\ pc = "done" /\ libraryReadable
    /\ \E r \in Range(results) : ~r.success /\ r.error = CopyErrorMessage
    /\ \E r \in Range(results) : ~r.success /\ includes(r.error, "not found in library")

\* C15: a copy error is reported per identifier: the failure Result pushed
\* when the copy of the n-th resolved identifier of a name raises has logoName
\* equal to that identifier, not to the brand name, and carries the message.
C15_CopyErrorNamesIdentifier ==
    pc = "done" =>
        \A i \in 1..Len(logoNames) :
            \A n \in 1..Len(resultsOf(i)) :
                LET r == resultsOf(i)[n]
                IN  (~r.success /\ r.error = CopyErrorMessage) =>
                        r.logoName = resolvedIdentifiers(i)[n]

\* C16: every identifier that survives the variant filter gets exactly one
\* Result, in the filtered order: a name with n surviving identifiers has n
\* Results, the k-th about the k-th identifier whenever it is a success, also
\* when the copy of one of them raises.
C16_OneResultPerIdentifier ==
    pc = "done" =>
        \A i \in 1..Len(logoNames) :
            resolvedIdentifiers(i) # <<>> =>
                /\ Len(resultsOf(i)) = Len(resolvedIdentifiers(i))
                /\ \A n \in 1..Len(resultsOf(i)) :
                      resultsOf(i)[n].success =>
                          resultsOf(i)[n].logoName = resolvedIdentifiers(i)[n]

\* the k-th Result has the fields its outcome calls for
resultWellFormed(k) ==
    LET r == results[k]
    IN  /\ ("skipped" \in DOMAIN r /\ r.skipped) <=> (r.success /\ existedAtPush[k])
        /\ ("reason" \in DOMAIN r) <=> ("skipped" \in DOMAIN r /\ r.skipped)
        /\ ("error" \in DOMAIN r) <=> ~r.success
        /\ "reason" \in DOMAIN r => r.reason # ""
        /\ "error" \in DOMAIN r => r.error # ""

\* during a call the list only grows at its end
resultsOnlyAppended ==
    runs' = runs =>
        /\ Len(results') >= Len(results)
        /\ SubSeq(results', 1, Len(results)) = results

\* C17: every Result is well-formed: skipped is true iff success is true and
\* the file of the identifier was in the target when it was processed; a
\* reason is present exactly when skipped is true; an error message is present
\* exactly when success is false; and no Result changes after it was appended.
C17_ResultsWellFormed ==
    /\ [](\A k \in 1..Len(results) : resultWellFormed(k))
    /\ [][resultsOnlyAppended]_vars

\* a returned list with a skipped Result, an added one and a failed one
C17_Witness ==
    /\ pc = "done"
    /\ \E k \in 1..Len(results) : isSkipped(results[k]) /\ existedAtPush[k]
    /\ \E k \in 1..Len(results) :
          results[k].success /\ ~isSkipped(results[k]) /\ ~existedAtPush[k]
    /\ \E k \in 1..Len(results) : ~results[k].success

(***************************************************************************)
(* Properties of the add command (checked under SpecAdd)                   *)
(***************************************************************************)
\* the user cancelled the directory prompt
cancelled == directory = Some(CancelSymbol)

\* a well-formed name was given on the command line
someWellFormedArg == \E k \in 1..Len(argv) : IsWellFormed(argv[k])

\* the command ended although a well-formed name was given and the user did
\* not cancel, and processLogos did not return Results
runAborted ==
    /\ addPc = "exited"
    /\ someWellFormedArg /\ ~cancelled
    /\ pc # "done"

\* when the library cannot be listed: no name is processed, nothing is created
\* in the target, and the command ends with exit status 1
storeReadErrorAborts ==
    /\ pc = "raised" =>
          /\ ~libraryReadable
          /\ results = <<>> /\ nameIdx = 1
          /\ target = targetAtCall
          /\ targetDirExists = dirExistedAtCall
    /\ (addPc = "exited" /\ pc = "raised") => exitStatus = Some(1)

\* C14: a Store-Read error is the only failure that aborts a whole run: when
\* the library cannot be listed, the listing raises, no name is processed,
\* nothing is created in the target and the command ends with exit status 1;
\* and a run that was aborted was aborted by that error.
C14_OnlyStoreReadAborts ==
    /\ storeReadErrorAborts
    /\ runAborted => pc = "raised"

\* the three outcomes of a batch whose Results were returned
allFailed == hasFailures /\ ~hasSuccesses
partialFailure == hasFailures /\ hasSuccesses
allSucceeded == ~hasFailures /\ hasSuccesses

\* C18: the exit status distinguishes the three outcomes of a batch. A batch
\* in which every Result succeeded ends with status 0 and one in which every
\* Result failed with status 1, so a batch with a partial failure ends with a
\* status that is neither.
C18_ExitStatusDistinguishesOutcomes ==
    (addPc = "exited" /\ pc = "done") =>
        /\ allSucceeded => exitStatus = Some(0)
        /\ allFailed => exitStatus = Some(1)
        /\ partialFailure => exitStatus \notin {Some(0), Some(1)}

\* C19: a validation error is not fatal to the batch: when the command line
\* holds malformed and well-formed names, the malformed ones are reported and
\* the well-formed ones are passed to processLogos.
C19_ValidationErrorNotFatal ==
    (addPc = "exited" /\ ~cancelled /\ validation # None) =>
        LET v == valueOf(validation)
        IN  (v.hasErrors /\ v.validNames # <<>>) =>
                /\ [k \in 1..Len(v.errors) |-> v.errors[k].name] = SelectSeq(argv, IsMalformed)
                /\ pc # "idle"
                /\ logoNames = v.validNames

\* C20: name validation completes before any file-system work: nothing was
\* read from or written to a directory while validateLogoNames has not
\* returned, and nothing at all when no name was given or no valid name
\* remains; file-system work implies a validation that left a valid name.
C20_ValidationBeforeFileSystemWork ==
    /\ validation = None => fsWork = {} /\ pc = "idle"
    /\ (Len(argv) = 0 \/ (validation # None /\ valueOf(validation).validNames = <<>>)) =>
          /\ fsWork = {} /\ pc = "idle"
          /\ addPc \in {"start", "exited"}
    /\ fsWork # {} =>
          /\ validation # None
          /\ rawNames = argv
          /\ valueOf(validation).validNames # <<>>

\* a run that validated its names, looked for the target directory, listed
\* the library and copied a file
C20_Witness ==
    /\ addPc = "exited" /\ pc = "done"
    /\ validation # None
    /\ {"targetAccess", "readdir", "ensureDir", "copy"} \subseteq fsWork

(***************************************************************************)
(* Properties of the target path (checked under SpecPaths)                 *)
(***************************************************************************)

C22_DefaultFollowsSrcDirectory ==
    (pathPc # "start" /\ customTargetDirectory = None /\ getConfiguredOutputDir(Disk) = None)
    => /\ getTargetLogosPath(Disk, customTargetDirectory)
              \in {cwd \o <<"src", "components", "logos">>, cwd \o <<"components", "logos">>}
       /\ getTargetLogosPath(Disk, customTargetDirectory) = cwd \o <<"src", "components", "logos">>
              <=> Append(cwd, "src") \in dirs

\* <cwd>/src is a regular file, nothing is configured, and a logo was copied to
\* <cwd>/components/logos
C22_Witness ==
    /\ pathPc = "process" /\ customTargetDirectory = None
    /\ getConfiguredOutputDir(Disk) = None
    /\ Append(cwd, "src") \in regularFiles
    /\ resolvedTargets = {cwd \o <<"components", "logos">>}
    /\ \E id \in PathLogoPool : cwd \o <<"components", "logos", id \o ".svg">> \in regularFiles

(***************************************************************************)
(* Properties of processLogos on unusual file names (SpecResolve)          *)
(***************************************************************************)
isSortedAscending(seq) == \A i, j \in 1..Len(seq) : i < j => strLess(seq[i], seq[j])
withoutExtension(file) == SubSeq(file, 1, Len(file) - Len(".svg"))
svgFilesOf(files) == {f \in files : endsWith(f, ".svg")}

\* C23: the listing of the library is in ascending order and holds exactly one
\* identifier per file whose name ends with ".svg", the file name without its
\* trailing ".svg"; so no identifier contains ".svg" and <identifier>.svg is a
\* file of the library.
C23_ListingStripsExtension ==
    pc \in {"name", "variant", "done"}
    => /\ isSortedAscending(availableLogos)
       /\ Len(availableLogos) = Cardinality(svgFilesOf(library))
       /\ Range(availableLogos) = {withoutExtension(f) : f \in svgFilesOf(library)}
       /\ \A i \in 1..Len(availableLogos) :
             /\ ~includes(availableLogos[i], ".svg")
             /\ logoExistsInLibrary(availableLogos[i])

(***************************************************************************)
(* Frame and order properties of processLogos (checked under Spec)         *)
(***************************************************************************)

\* C24: processLogos leaves the library as it is and writes nothing to the target
\* but logo files: no step changes the library, removes a target file or changes
\* the content of one, and every file a step creates is <identifier>.svg for an
\* identifier of the library listing, with the content of that library file.
C24_OnlyLogoFilesWritten ==
    [][ /\ library' = library
        /\ DOMAIN target \subseteq DOMAIN target'
        /\ \A f \in DOMAIN target : target'[f] = target[f]
        /\ \A f \in DOMAIN target' \ DOMAIN target :
              /\ endsWith(f, ".svg") /\ f \in library
              /\ withoutExtension(f) \in Range(availableLogos)
              /\ target'[f] = libraryContent(f) ]_vars

\* the second run has returned, a file the user had put in the target is still
\* there, and the files added to it are library files
C24_Witness ==
    /\ pc = "done" /\ runs = 2
    /\ \E f \in DOMAIN target : target[f] = UserContent
    /\ \E f \in DOMAIN target : target[f] = libraryContent(f)
    /\ DOMAIN target \subseteq library

\* C25: the Result list keeps the encounter order: it is the concatenation, in the
\* order of the input names, of one non-empty block of Results per name (so there
\* are at least as many Results as names); within a block the successes are about
\* the name's resolved identifiers in their order, which is the ascending order of
\* the library listing, and a failure is about the name itself and ends the block.
C25_ResultsInEncounterOrder ==
    pc = "done" =>
        /\ \A k, l \in 1..Len(results) : k < l => owner[k] <= owner[l]
        /\ \A i \in 1..Len(logoNames) : resultsOf(i) # <<>>
        /\ Len(results) >= Len(logoNames)
        /\ \A i \in 1..Len(logoNames) :
              LET block == resultsOf(i)
                  ids == resolvedIdentifiers(i)
              IN  /\ \A m, n \in 1..Len(ids) :
                         m < n => \E a, b \in 1..Len(availableLogos) :
                                      a < b /\ availableLogos[a] = ids[m]
                                            /\ availableLogos[b] = ids[n]
                  /\ \A n \in 1..Len(block) :
                         IF block[n].success
                         THEN n <= Len(ids) /\ block[n].logoName = ids[n]
                         ELSE n = Len(block) /\ block[n].logoName = logoNames[i]

\* two different names, the first with a block of several Results and the second
\* with a block of its own
C25_Witness ==
    /\ pc = "done" /\ Len(logoNames) = 2 /\ logoNames[1] # logoNames[2]
    /\ Len(resultsOf(1)) >= 2 /\ Len(resultsOf(2)) >= 1
    /\ \E n \in 1..Len(resultsOf(1)) : ~isSkipped(resultsOf(1)[n])

(***************************************************************************)
(* Properties of processLogos beside another process (SpecRace)            *)
(***************************************************************************)

\* C26: the copy refuses to overwrite under a race: when another process has
\* created <identifier>.svg after the existence check found it absent, the copy
\* step leaves every file of the target, that one included, with its content.
C26_CopyKeepsRacedFile ==
    [][ pc = "copy" =>
            \A f \in DOMAIN target : f \in DOMAIN target' /\ target'[f] = target[f] ]_vars

\* the race has happened: the check found the file absent, the other process
\* created it, the copy ran and reported a plain success, and the file still has
\* the other process's content
C26_Witness ==
    /\ pc = "done"
    /\ \E k \in 1..Len(results) :
          /\ results[k].success /\ ~isSkipped(results[k])
          /\ (results[k].logoName \o ".svg") \in foreignFiles

(***************************************************************************)
(* Not-found failures and the fallback (checked under SpecResolve)         *)
(***************************************************************************)
\* a failure Result for something that is not in the library: the brand name
\* (line 213), its variants under the flags (line 225) or the file of an
\* identifier (line 127)
isNotFoundFailure(r) ==
    /\ ~r.success
    /\ \/ r.error = notFoundMessage(r.logoName)
       \/ r.error = noVariantsMessage(r.logoName)
       \/ \E id \in Range(availableLogos) : r.error = copyNotFoundMessage(id)

\* C27: a not-found failure changes nothing on the file system: the step that
\* pushes a not-found, a no-variants or a copy-not-found failure creates no file
\* and no directory, and after a call in which every name failed that way the
\* target is as it was at the call, its directory still missing if it was.
C27_NotFoundChangesNothing ==
    /\ [][ (Len(results') = Len(results) + 1 /\ isNotFoundFailure(results'[Len(results')]))
               => (target' = target /\ targetDirExists' = targetDirExists) ]_vars
    /\ []( (pc = "done" /\ \A k \in 1..Len(results) : isNotFoundFailure(results[k]))
               => (target = targetAtCall /\ targetDirExists = dirExistedAtCall) )

\* a call that left no target directory: one name was not found and the other
\* resolved to an identifier whose file is not in the library
C27_Witness ==
    /\ pc = "done" /\ ~targetDirExists /\ Len(results) = 2
    /\ \E k \in 1..Len(results) : results[k].error = notFoundMessage(results[k].logoName)
    /\ \E k \in 1..Len(results), id \in Range(availableLogos) :
          results[k].error = copyNotFoundMessage(id)

\* C29: for validated brand names and a library that does not change during the
\* call, the single-name fallback never finds anything: whenever findLogoVariants
\* returns nothing for a name over the listing, <name>.svg is not in the library,
\* and the name gets exactly one Result, the not-found failure.
C29_FallbackFindsNothing ==
    pc \in {"name", "variant", "done"} =>
        \A i \in 1..Len(logoNames) :
            (IsWellFormed(logoNames[i]) /\ findLogoVariants(logoNames[i], availableLogos) = <<>>)
            => /\ ~logoExistsInLibrary(logoNames[i])
               /\ i < nameIdx =>
                      resultsOf(i) = <<failureResult(logoNames[i], notFoundMessage(logoNames[i]))>>

\* the fallback was tried against a library that has logo files, and found nothing
C29_Witness ==
    /\ pc = "done" /\ svgFilesOf(library) # {}
    /\ "libraryAccess" \in fsWork
    /\ \E i \in 1..Len(logoNames) :
          /\ findLogoVariants(logoNames[i], availableLogos) = <<>>
          /\ resultsOf(i) = <<failureResult(logoNames[i], notFoundMessage(logoNames[i]))>>

(***************************************************************************)
(* Properties of the filterByVariants of utils/fs.ts (SpecVariantsFs)      *)
(***************************************************************************)
RECURSIVE isSubsequence(_, _)
isSubsequence(a, b) ==
    IF a = <<>> THEN TRUE
    ELSE IF b = <<>> THEN FALSE
    ELSE IF Head(a) = Head(b) THEN isSubsequence(Tail(a), Tail(b))
    ELSE isSubsequence(a, Tail(b))

\* C28: with at least one flag set, the output of filterByVariants is a
\* subsequence of its input without added duplicates: every candidate is in the
\* output at most as often as in the input and in the same relative order, also
\* when it holds the substrings of several requested flags.
C28_FilterIsSubsequence ==
    (filteredLogos # None /\ valueOf(variantFlags) # NoFlags) =>
        /\ isSubsequence(valueOf(filteredLogos), candidateLogos)
        /\ \A id \in Range(candidateLogos) :
              occurrences(valueOf(filteredLogos), id) <= occurrences(candidateLogos, id)

(***************************************************************************)
(* The stored target directory (checked under SpecPaths)                   *)
(***************************************************************************)

\* C30: the stored target directory round-trips: after a run has stored an
\* override d as brandcn.outputDir in a package.json, a later run started from the
\* same working directory without an override resolves getTargetLogosPath to the
\* directory that the storing run used, resolve(cwd, d).
C30_PersistedTargetRoundTrips ==
    (persisted # None /\ valueOf(persisted).run < pathRuns /\ customTargetDirectory = None)
    => getTargetLogosPath(Disk, customTargetDirectory) = valueOf(persisted).target

====
